---- MODULE Spec2Model ----
(***************************************************************************)
(* Model of odbc2parquet.py: the schema derivation from the cursor         *)
(* description, the fetch / transform / write / rotate loop, the final     *)
(* close and the success message.  The script is a single sequential       *)
(* program; pc is its position.                                            *)
(***************************************************************************)
EXTENDS Integers, Sequences, FiniteSets, TLC

\* ---------------------------------------------------------------- bounds
MaxRows == 3
MaxCapacity == 2
MaxBlockSize == 1

\* ------------------------------------------------------------- constants
\* 1024*1024, the divisor that turns file_handle.tell() into megabytes.
MB == 1024 * 1024
\* A freshly created ParquetWriter has written the 4-byte file magic, so
\* tell() of a segment that holds no rowgroup is 4, not a rowgroup's size.
MagicBytes == 4
\* Sizes in bytes a rowgroup may add to the open segment: half a megabyte
\* (two of them plus the magic are exactly 1 MB), one that brings a fresh
\* segment to exactly 1 MB, and one that takes it beyond 1 MB.
WriteSizes == {MB \div 2 - 2, MB - MagicBytes, MB}

\* --------------------------------------------------------- cursor inputs
\* cur.description entries: c[0] name, c[1] type code, c[4] precision,
\* c[5] scale, c[6] null_ok.  "UUID" (uuid.UUID) is a type code that none of
\* the branches of the derivation tests for.
TypeCodes ==
    {"int", "Decimal", "float", "str", "bytearray", "date", "time",
     "datetime", "bool", "UUID"}
Precisions == {3, 5, 10, 19, 53}

Column(n, t, p, s, k) ==
    [name |-> n, type_code |-> t, precision |-> p, scale |-> s, null_ok |-> k]

\* The precision decides the target type of int and float columns only; the
\* other type codes are given one precision each.
OneColumnDescriptions ==
    {<<Column("a", t, p, 2, k)>> :
        t \in {"int", "float"}, p \in Precisions, k \in BOOLEAN}
    \cup
    {<<Column("a", t, 19, 2, k)>> :
        t \in TypeCodes \ {"int", "float"}, k \in BOOLEAN}

TwoColumnDescriptions ==
    { <<Column("a", "int", 10, 0, FALSE), Column("a", "int", 19, 0, TRUE)>>,
      <<Column("a", "UUID", 19, 0, TRUE), Column("b", "str", 53, 0, FALSE)>>,
      <<Column("a", "float", 53, 0, FALSE), Column("b", "bool", 3, 0, TRUE)>> }

Descriptions == OneColumnDescriptions \cup TwoColumnDescriptions

VARIABLES
    rowgroupSize,    \* args.rowgroup
    blockSize,       \* args.blocksize
    description,     \* cur.description
    sourceRows,      \* number of rows the query yields
    pc,              \* position of the script
    schema,          \* pa.schema(fields)
    fetched,         \* rows the cursor has handed out so far
    res,             \* result of the last fetchmany (row ids)
    cols,            \* column names, set on the first batch
    rowcount,        \* rowcount
    table,           \* the pyarrow table built from res, a sequence of rows
    writer,          \* 0 for None, else the index of the writer's segment
    segments,        \* every ParquetWriter created, in order of creation
    fileNumber,      \* fileNumber
    outputFileName,  \* outputFileName
    batches,         \* sizes of the batches fetched so far
    progress,        \* progress lines printed
    finalMessage     \* the final success line, once printed

vars ==
    <<rowgroupSize, blockSize, description, sourceRows, pc, schema, fetched,
      res, cols, rowcount, table, writer, segments, fileNumber,
      outputFileName, batches, progress, finalMessage>>

inputs == <<rowgroupSize, blockSize, description, sourceRows>>

\* ------------------------------------------------------------ file names
DigitChar(d) == <<"0", "1", "2", "3", "4", "5", "6", "7", "8", "9">>[d + 1]

RECURSIVE Digits(_)
Digits(n) ==
    IF n < 10 THEN <<DigitChar(n)>>
    ELSE Digits(n \div 10) \o <<DigitChar(n % 10)>>

RECURSIVE ZeroPad(_, _)
ZeroPad(s, w) == IF Len(s) >= w THEN s ELSE ZeroPad(<<"0">> \o s, w)

\* f'{n:05d}'
Format05d(n) == ZeroPad(Digits(n), 5)

outputFileRoot == "root"

\* f'{outputFileRoot}_{fileNumber:05d}.parquet'
NumberedFileName(n) == <<outputFileRoot, "_">> \o Format05d(n) \o <<".parquet">>

\* outputFileRoot + '.parquet'
PlainFileName == <<outputFileRoot, ".parquet">>

\* fileNumber = fileNumber + 1
SkipsFileNumber(n) == n
NextFileNumber(n) == n + 1

InitialFileName(b) == IF b > 0 THEN NumberedFileName(1) ELSE PlainFileName
InitialFileNumberStaysOne(b) == 1
InitialFileNumber(b) == IF b > 0 THEN NextFileNumber(1) ELSE 1

\* ------------------------------------------------------ schema derivation
Field(n, t, k) == [name |-> n, type |-> t, nullable |-> k]
Type(id) == [id |-> id, precision |-> 0, scale |-> 0]
Decimal128(p, s) == [id |-> "decimal128", precision |-> p, scale |-> s]

\* The truth value Python gives a list passed where a bool is expected.
ListTruth(l) == Len(l) > 0

\* The if/elif chain on pr of an int column.
IntegerTypeNoInt16(pr) ==
    IF pr = 3 THEN Type("int8")
    ELSE IF pr = 10 THEN Type("int32")
    ELSE Type("int64")
IntegerType(pr) ==
    IF pr = 3 THEN Type("int8")
    ELSE IF pr = 5 THEN Type("int16")
    ELSE IF pr = 10 THEN Type("int32")
    ELSE Type("int64")

\* One iteration of the loop over cur.description: what it appends to fields.
FieldsFor(c) ==
    LET ct == c.type_code
        pr == c.precision
    IN  IF ct = "int" THEN <<Field(c.name, IntegerType(pr), c.null_ok)>>
        ELSE IF ct = "Decimal" THEN
            <<Field(c.name, Decimal128(c.precision, c.scale), c.null_ok)>>
        ELSE IF ct = "float" THEN
            IF pr = 53 THEN <<Field(c.name, Type("float32"), ListTruth(<<c.null_ok>>))>>
            ELSE <<Field(c.name, Type("float64"), ListTruth(<<c.null_ok>>))>>
        ELSE IF ct = "str" THEN <<Field(c.name, Type("string"), c.null_ok)>>
        ELSE IF ct = "bytearray" THEN <<Field(c.name, Type("binary"), c.null_ok)>>
        ELSE IF ct = "date" THEN <<Field(c.name, Type("date32"), c.null_ok)>>
        ELSE IF ct = "time" THEN <<Field(c.name, Type("time32[ms]"), c.null_ok)>>
        ELSE IF ct = "datetime" THEN <<Field(c.name, Type("timestamp[ms]"), c.null_ok)>>
        ELSE IF ct = "bool" THEN <<Field(c.name, Type("bool"), c.null_ok)>>
        ELSE <<>>

RECURSIVE DeriveFields(_)
DeriveFields(desc) ==
    IF desc = <<>> THEN <<>>
    ELSE FieldsFor(Head(desc)) \o DeriveFields(Tail(desc))

\* ------------------------------------------------------------ the cursor
\* cur.fetchmany(n) on a cursor that has handed out `position` of `total`
\* rows: the next min(n, total - position) rows, identified by their number.
ShortFetch(position, total, n) ==
    LET k == IF total - position < n - 1 THEN total - position ELSE n - 1
    IN  [i \in 1..k |-> position + i]
fetchmany(position, total, n) ==
    LET k == IF total - position < n THEN total - position ELSE n
    IN  [i \in 1..k |-> position + i]

\* if not res: break
AfterFetchNoBreak(r) == "progress"
AfterFetch(r) == IF r = <<>> THEN "close" ELSE "progress"

\* if rowcount > 0
PrintsAlways(rc) == rc >= 0
PrintsProgress(rc) == rc > 0

\* The row the cursor returns for row number id: one value per column of the
\* description, in the description's order.  A value is known by the row and
\* the source column it comes from.
RowOf(desc, id) == [j \in DOMAIN desc |-> [row |-> id, column |-> j]]

\* ---------------------------------------------------------- the transform
\* dict(zip(names, values)): a mapping from name to value; zip stops at the
\* shorter sequence, and a name that occurs more than once keeps the value
\* of its last occurrence.
DictZip(names, values) ==
    LET n == IF Len(names) < Len(values) THEN Len(names) ELSE Len(values)
        last(k) == CHOOSE i \in 1..n :
                      /\ names[i] = k
                      /\ \A j \in 1..n : names[j] = k => j <= i
    IN  [k \in {names[i] : i \in 1..n} |-> values[last(k)]]

\* rows = [dict(zip(cols, r)) for r in res]; pandas.DataFrame(rows)
DataFrame(desc, names, ids) ==
    [k \in DOMAIN ids |-> DictZip(names, RowOf(desc, ids[k]))]

\* pa.Table.from_pandas(df, schema): column i of the table is the frame's
\* column that has the name of schema field i.
FromPandas(df, sch) ==
    [k \in DOMAIN df |-> [i \in DOMAIN sch |-> df[k][sch[i].name]]]

\* ------------------------------------------------------------ the writer
\* pq.ParquetWriter(outputFileName, schema): a new open file that starts with
\* the schema it is given.
ParquetWriterNoSchema(name, sch) ==
    [name |-> name, schema |-> <<>>, rowgroups |-> <<>>, tell |-> MagicBytes,
     isOpen |-> TRUE]
ParquetWriter(name, sch) ==
    [name |-> name, schema |-> sch, rowgroups |-> <<>>, tell |-> MagicBytes,
     isOpen |-> TRUE]

\* writer.write_table(table): one rowgroup appended to the writer's segment.
WriteTableTwice(segs, w, batchNo, rows, nbytes) ==
    [segs EXCEPT ![w].rowgroups =
                    @ \o << [batch |-> batchNo, rows |-> rows, bytes |-> nbytes],
                            [batch |-> batchNo, rows |-> rows, bytes |-> nbytes] >>,
                 ![w].tell = @ + nbytes + nbytes]
WriteTableLosesRowgroup(segs, w, batchNo, rows, nbytes) ==
    [segs EXCEPT ![w].tell = @ + nbytes]
WriteTableCountsAllFiles(segs, w, batchNo, rows, nbytes) ==
    LET RECURSIVE Total(_)
        Total(rgs) == IF rgs = <<>> THEN 0 ELSE Head(rgs).bytes + Total(Tail(rgs))
        RECURSIVE All(_)
        All(ss) == IF ss = <<>> THEN 0 ELSE Total(Head(ss).rowgroups) + All(Tail(ss))
    IN  [segs EXCEPT ![w].rowgroups =
                        Append(@, [batch |-> batchNo, rows |-> rows, bytes |-> nbytes]),
                     ![w].tell = MagicBytes + All(segs) + nbytes]
WriteTableInFront(segs, w, batchNo, rows, nbytes) ==
    [segs EXCEPT ![w].rowgroups =
                    <<[batch |-> batchNo, rows |-> rows, bytes |-> nbytes]>> \o @,
                 ![w].tell = @ + nbytes]
WriteTable(segs, w, batchNo, rows, nbytes) ==
    [segs EXCEPT ![w].rowgroups =
                    Append(@, [batch |-> batchNo, rows |-> rows, bytes |-> nbytes]),
                 ![w].tell = @ + nbytes]

\* writer.close()
LeaveOpen(segs, w) == segs
CloseWriter(segs, w) == [segs EXCEPT ![w].isOpen = FALSE]

\* fileSize = tell() / (1024*1024); fileSize > blockSize.  The division is
\* exact, so the comparison is the same as tell() > blockSize * 1024 * 1024.
AtLeastBlockSize(tell, b) == tell >= b * MB
ExceedsBlockSize(tell, b) == tell > b * MB

\* An uncaught exception ends the script: nothing after the raising line
\* runs, line 298-299 included.  Whether the interpreter finalizes the writer
\* object on its way out is not decided by the script.
AtExit(segs, finalized) ==
    IF finalized THEN [i \in DOMAIN segs |-> [segs[i] EXCEPT !.isOpen = FALSE]]
    ELSE segs

\* ------------------------------------------------------------------ Init
Init ==
    /\ rowgroupSize \in 1..MaxCapacity
    /\ blockSize \in 0..MaxBlockSize
    /\ description \in Descriptions
    /\ sourceRows \in 0..MaxRows
    /\ pc = "schema"
    /\ schema = <<>>
    /\ fetched = 0
    /\ res = <<>>
    /\ cols = <<>>
    /\ rowcount = 0
    /\ table = <<>>
    /\ writer = 0
    /\ segments = <<>>
    /\ fileNumber = InitialFileNumber(blockSize)
    /\ outputFileName = InitialFileName(blockSize)
    /\ batches = <<>>
    /\ progress = <<>>
    /\ finalMessage = <<>>

\* --------------------------------------------------------------- actions
\* Lines 188-224: the loop over cur.description and pa.schema(fields).
DeriveSchema ==
    /\ pc = "schema"
    /\ schema' = DeriveFields(description)
    /\ pc' = "fetch"
    /\ UNCHANGED <<inputs, fetched, res, cols, rowcount, table, writer, segments,
                   fileNumber, outputFileName, batches, progress, finalMessage>>

\* Lines 240-242: fetch a batch; an empty one leaves the loop.
Fetch ==
    /\ pc = "fetch"
    /\ res' = fetchmany(fetched, sourceRows, rowgroupSize)
    /\ fetched' = fetched + Len(res')
    /\ batches' = Append(batches, Len(res'))
    /\ pc' = AfterFetch(res')
    /\ UNCHANGED <<inputs, schema, cols, rowcount, table, writer, segments,
                   fileNumber, outputFileName, progress, finalMessage>>

\* Lines 249-253: the progress line, printed when rows were counted before.
Progress ==
    /\ pc = "progress"
    /\ progress' = IF PrintsProgress(rowcount)
                   THEN Append(progress, [rows |-> rowcount, file |-> outputFileName])
                   ELSE progress
    /\ pc' = "transform"
    /\ UNCHANGED <<inputs, schema, fetched, res, cols, rowcount, table, writer,
                   segments, fileNumber, outputFileName, batches, finalMessage>>

\* Lines 259-271: rows, rowcount and the table.
Transform ==
    /\ pc = "transform"
    /\ cols' = IF cols = <<>> THEN [i \in DOMAIN description |-> description[i].name]
               ELSE cols
    /\ rowcount' = rowcount + Len(res)
    /\ table' = FromPandas(DataFrame(description, cols', res), schema)
    /\ pc' = "write"
    /\ UNCHANGED <<inputs, schema, fetched, res, writer, segments, fileNumber,
                   outputFileName, batches, progress, finalMessage>>

\* Lines 280-283: create the writer if there is none, then write the table.
Write ==
    /\ pc = "write"
    /\ \E nbytes \in WriteSizes :
         LET segs == IF writer = 0
                     THEN Append(segments, ParquetWriter(outputFileName, schema))
                     ELSE segments
             w    == IF writer = 0 THEN Len(segs) ELSE writer
         IN  /\ writer' = w
             /\ segments' = WriteTable(segs, w, Len(batches), table, nbytes)
    /\ pc' = "rotate"
    /\ UNCHANGED <<inputs, schema, fetched, res, cols, rowcount, table,
                   fileNumber, outputFileName, batches, progress, finalMessage>>

\* Lines 287-293: start a new file if the block size is set and exceeded.
Rotate ==
    /\ pc = "rotate"
    /\ IF blockSize > 0 /\ ExceedsBlockSize(segments[writer].tell, blockSize)
       THEN /\ outputFileName' = NumberedFileName(fileNumber)
            /\ fileNumber' = NextFileNumber(fileNumber)
            /\ segments' = Append(CloseWriter(segments, writer),
                                  ParquetWriter(outputFileName', schema))
            /\ writer' = Len(segments')
       ELSE UNCHANGED <<outputFileName, fileNumber, segments, writer>>
    /\ pc' = "fetch"
    /\ UNCHANGED <<inputs, schema, fetched, res, cols, rowcount, table, batches,
                   progress, finalMessage>>

\* Lines 298-299: close the writer, if one was created.
Close ==
    /\ pc = "close"
    /\ segments' = IF writer # 0 THEN CloseWriter(segments, writer) ELSE segments
    /\ pc' = "final"
    /\ UNCHANGED <<inputs, schema, fetched, res, cols, rowcount, table, writer,
                   fileNumber, outputFileName, batches, progress, finalMessage>>

\* Lines 303-306: the final success message.
FinalMessage ==
    /\ pc = "final"
    /\ finalMessage' = <<[rows |-> rowcount, file |-> outputFileName]>>
    /\ pc' = "done"
    /\ UNCHANGED <<inputs, schema, fetched, res, cols, rowcount, table, writer,
                   segments, fileNumber, outputFileName, batches, progress>>

\* ------------------------------------------------------------- failures
\* cur.fetchmany raises.
FailFetch ==
    /\ pc = "fetch"
    /\ \E finalized \in BOOLEAN : segments' = AtExit(segments, finalized)
    /\ pc' = "failed"
    /\ UNCHANGED <<inputs, schema, fetched, res, cols, rowcount, table, writer,
                   fileNumber, outputFileName, batches, progress, finalMessage>>

\* pa.Table.from_pandas raises (line 271), after rowcount was updated.
FailTransform ==
    /\ pc = "transform"
    /\ cols' = IF cols = <<>> THEN [i \in DOMAIN description |-> description[i].name]
               ELSE cols
    /\ rowcount' = rowcount + Len(res)
    /\ \E finalized \in BOOLEAN : segments' = AtExit(segments, finalized)
    /\ pc' = "failed"
    /\ UNCHANGED <<inputs, schema, fetched, res, table, writer, fileNumber,
                   outputFileName, batches, progress, finalMessage>>

\* The first ParquetWriter cannot be created (line 281).
FailOpen ==
    /\ pc = "write"
    /\ writer = 0
    /\ pc' = "failed"
    /\ UNCHANGED <<inputs, schema, fetched, res, cols, rowcount, table, writer,
                   segments, fileNumber, outputFileName, batches, progress,
                   finalMessage>>

\* writer.write_table raises (line 283); the rowgroup is not in the file.
FailWrite ==
    /\ pc = "write"
    /\ LET segs == IF writer = 0
                   THEN Append(segments, ParquetWriter(outputFileName, schema))
                   ELSE segments
       IN  /\ writer' = IF writer = 0 THEN Len(segs) ELSE writer
           /\ \E finalized \in BOOLEAN : segments' = AtExit(segs, finalized)
    /\ pc' = "failed"
    /\ UNCHANGED <<inputs, schema, fetched, res, cols, rowcount, table,
                   fileNumber, outputFileName, batches, progress, finalMessage>>

\* The next ParquetWriter cannot be created (line 293): the old one is
\* closed, the name and the counter are already those of the next file.
FailRotate ==
    /\ pc = "rotate"
    /\ blockSize > 0
    /\ ExceedsBlockSize(segments[writer].tell, blockSize)
    /\ segments' = CloseWriter(segments, writer)
    /\ outputFileName' = NumberedFileName(fileNumber)
    /\ fileNumber' = NextFileNumber(fileNumber)
    /\ pc' = "failed"
    /\ UNCHANGED <<inputs, schema, fetched, res, cols, rowcount, table, writer,
                   batches, progress, finalMessage>>

Next ==
    \/ DeriveSchema
    \/ Fetch
    \/ Progress
    \/ Transform
    \/ Write
    \/ Rotate
    \/ Close
    \/ FinalMessage
    \/ FailFetch
    \/ FailTransform
    \/ FailOpen
    \/ FailWrite
    \/ FailRotate

Spec == Init /\ [][Next]_vars

\* The script is one sequential program: it keeps running until it exits.
LiveSpec == Spec /\ WF_vars(Next)

\* ---------------------------------------------------------------- helpers
RECURSIVE SumSeq(_)
SumSeq(s) == IF s = <<>> THEN 0 ELSE Head(s) + SumSeq(Tail(s))

Ceil(a, b) == (a + b - 1) \div b

Terminated == pc \in {"done", "failed"}

\* ------------------------------------------------------------------- C1
\* What a run that has printed the final message has fetched and counted.
C1_Counts ==
    pc = "done" =>
        LET n == Ceil(sourceRows, rowgroupSize)
        IN  /\ Len(batches) = n + 1
            /\ batches[n + 1] = 0
            /\ \A i \in 1..n : batches[i] >= 1 /\ batches[i] <= rowgroupSize
            /\ \A i \in 1..(n - 1) : batches[i] = rowgroupSize
            /\ SumSeq(batches) = sourceRows
            /\ rowcount = sourceRows
            /\ Len(finalMessage) = 1
            /\ finalMessage[1].rows = sourceRows

\* C1: for a source of R rows and batch capacity C >= 1, a run that reaches
\* the final message has fetched exactly ceil(R/C) non-empty batches, all of
\* size C except possibly the last, followed by exactly one empty batch; the
\* batch sizes sum to R and the final message reports R rows; and every run
\* terminates.
C1_FetchBatchesThenStop == []C1_Counts /\ <>Terminated

\* A finished export of 3 rows in batches of 2: a full batch, a short one
\* and the empty one.
C1_Witness ==
    /\ pc = "done"
    /\ sourceRows = 3
    /\ rowgroupSize = 2
    /\ batches = <<2, 1, 0>>

\* ------------------------------------------------------------------- C2
\* C2: with blockSize = 0 a finished export has produced exactly one
\* segment, whatever the number of rows, zero rows included.
C2_OneSegmentWhenUnsplit ==
    (pc = "done" /\ blockSize = 0) => Len(segments) = 1

\* ------------------------------------------------------------------- C3
DigitValue(ch) == CHOOSE d \in 0..9 : DigitChar(d) = ch

RECURSIVE DecimalValue(_)
DecimalValue(ds) ==
    IF ds = <<>> THEN 0
    ELSE 10 * DecimalValue(SubSeq(ds, 1, Len(ds) - 1)) + DigitValue(ds[Len(ds)])

\* name reads {root}_{n:05d}.parquet, for n below 100000.
IsNumberedName(name, n) ==
    /\ Len(name) = 8
    /\ name[1] = outputFileRoot
    /\ name[2] = "_"
    /\ name[8] = ".parquet"
    /\ DecimalValue(SubSeq(name, 3, 7)) = n

\* C3: with blockSize > 0 the i-th segment opened is named
\* {root}_{i:05d}.parquet, so the numbers start at 1, grow by exactly 1 and
\* none is skipped or reused; with blockSize = 0 the only name in use, for
\* the segment and for outputFileName, is {root}.parquet.
C3_SegmentNames ==
    /\ blockSize > 0 =>
          /\ \A i \in DOMAIN segments : IsNumberedName(segments[i].name, i)
          /\ \A i, j \in DOMAIN segments :
                i # j => segments[i].name # segments[j].name
    /\ blockSize = 0 =>
          /\ outputFileName = <<outputFileRoot, ".parquet">>
          /\ \A i \in DOMAIN segments :
                segments[i].name = <<outputFileRoot, ".parquet">>

\* Three segments have been opened and the third is _00003.
C3_Witness ==
    /\ blockSize > 0
    /\ Len(segments) >= 3
    /\ segments[3].name = <<"root", "_", "0", "0", "0", "0", "3", ".parquet">>

\* ------------------------------------------------------------------- C4
\* C4: no segment that was opened ends a finished export with zero
\* rowgroups.
C4_NoEmptySegment ==
    pc = "done" => \A i \in DOMAIN segments : Len(segments[i].rowgroups) >= 1

\* ------------------------------------------------------------------- C5
\* The places <<segment, rowgroup>> where batch b was written.
PlacesOf(b) ==
    {p \in UNION {{<<i, j>> : j \in DOMAIN segments[i].rowgroups} : i \in DOMAIN segments} :
        segments[p[1]].rowgroups[p[2]].batch = b}

RowsOfSegment(i) ==
    SumSeq([j \in DOMAIN segments[i].rowgroups |-> Len(segments[i].rowgroups[j].rows)])

RowsInSegments == SumSeq([i \in DOMAIN segments |-> RowsOfSegment(i)])

\* Between loop iterations and after the loop: every non-empty batch is in
\* exactly one rowgroup of one segment, with all its rows, and the segments
\* together hold as many rows as were read and counted.
C5_BetweenIterations ==
    pc \in {"fetch", "close", "final", "done"} =>
        /\ \A b \in DOMAIN batches :
              batches[b] > 0 =>
                 /\ Cardinality(PlacesOf(b)) = 1
                 /\ \A p \in PlacesOf(b) :
                       Len(segments[p[1]].rowgroups[p[2]].rows) = batches[b]
        /\ RowsInSegments = rowcount
        /\ RowsInSegments = fetched

\* A write adds one rowgroup, holding the table, to the segment that is
\* open, and leaves every other segment as it was.
C5_WriteStep ==
    (pc = "write" /\ pc' = "rotate") =>
        /\ writer' \in DOMAIN segments'
        /\ segments'[writer'].isOpen
        /\ \A i \in DOMAIN segments' :
              LET before == IF i \in DOMAIN segments THEN segments[i].rowgroups ELSE <<>>
                  after  == segments'[i].rowgroups
              IN  IF i = writer'
                  THEN /\ Len(after) = Len(before) + 1
                       /\ SubSeq(after, 1, Len(before)) = before
                       /\ after[Len(after)].rows = table
                  ELSE after = before

\* C5: every non-empty batch is written as exactly one rowgroup to exactly
\* one segment, the one open at the time of the write, never split and never
\* written twice; after every loop iteration and at the end the rows in all
\* segments add up to the rows read from the source.
C5_BatchIsOneRowgroup == [][C5_BetweenIterations' /\ C5_WriteStep]_vars

\* Three one-row batches, all written, spread over more than one segment.
C5_Witness ==
    /\ pc = "done"
    /\ batches = <<1, 1, 1, 0>>
    /\ Len(segments) >= 2
    /\ RowsInSegments = 3

\* ------------------------------------------------------------------- C6
\* A successful pass through the rotation block closes the open segment and
\* opens a new one exactly when blockSize > 0 and the segment's size is
\* strictly above blockSize megabytes; otherwise it changes nothing.
C6_RotateStep ==
    (pc = "rotate" /\ pc' = "fetch") =>
        LET over == blockSize > 0 /\ segments[writer].tell > blockSize * 1024 * 1024
        IN  /\ over =>
                /\ Len(segments') = Len(segments) + 1
                /\ ~ segments'[writer].isOpen
                /\ writer' = Len(segments')
                /\ segments'[writer'].isOpen
                /\ segments'[writer'].rowgroups = <<>>
            /\ ~ over =>
                /\ segments' = segments
                /\ writer' = writer
                /\ segments'[writer'].isOpen

\* A segment that a rotation closed is above the threshold only by its last
\* rowgroup.
C6_ClosedByRotation ==
    \A i \in DOMAIN segments :
        i < Len(segments) =>
            /\ blockSize > 0
            /\ ~ segments[i].isOpen
            /\ Len(segments[i].rowgroups) >= 1
            /\ segments[i].tell > blockSize * 1024 * 1024
            /\ segments[i].tell
                  - segments[i].rowgroups[Len(segments[i].rowgroups)].bytes
                  <= blockSize * 1024 * 1024

\* C6: after each rowgroup write the open segment is closed and a new one
\* opened if and only if blockSize > 0 and its size strictly exceeds
\* blockSize MB; a segment closed by rotation was at most at the threshold
\* before its last rowgroup, and a segment exactly at the threshold stays.
C6_RotationRule == [][C6_RotateStep /\ C6_ClosedByRotation']_vars

\* After a rotation, the open segment holds a rowgroup, sits exactly on the
\* threshold and has stayed open through the rotation check.
C6_Witness ==
    /\ pc = "fetch"
    /\ blockSize = 1
    /\ Len(segments) = 2
    /\ writer = 2
    /\ segments[2].isOpen
    /\ Len(segments[2].rowgroups) = 1
    /\ segments[2].tell = 1024 * 1024

\* ------------------------------------------------------------------- C7
\* C7: when a stage fails, the segment that was open at the time of the
\* failure is closed before the process ends.
C7_FailureClosesSegment ==
    pc = "failed" => \A i \in DOMAIN segments : ~ segments[i].isOpen

\* ------------------------------------------------------------------- C8
\* C8: when the export ends normally, every segment that was opened has
\* been closed, whatever its size; none is open in the terminal state.
C8_AllClosedAtEnd ==
    pc \in {"final", "done"} => \A i \in DOMAIN segments : ~ segments[i].isOpen

\* A finished export with a rotated segment and a last segment that never
\* reached the threshold.
C8_Witness ==
    /\ pc = "done"
    /\ blockSize = 1
    /\ Len(segments) = 2
    /\ Len(segments[2].rowgroups) >= 1
    /\ segments[2].tell < 1024 * 1024

\* ------------------------------------------------------------------- C9
\* The type codes the claims call mapped.
MappedTypeCodes ==
    {"int", "Decimal", "float", "str", "bytearray", "date", "time",
     "datetime", "bool"}

IsMapped(c) == c.type_code \in MappedTypeCodes

\* The position in the schema of the field made from column i.
FieldIndex(i) == Cardinality({j \in 1..i : IsMapped(description[j])})

\* C9: the nullable flag of every source column of a mapped type is copied
\* unchanged into the schema field made from it.
C9_NullablePreserved ==
    pc # "schema" =>
        \A i \in DOMAIN description :
            IsMapped(description[i]) =>
                /\ FieldIndex(i) \in DOMAIN schema
                /\ schema[FieldIndex(i)].nullable = description[i].null_ok

\* ------------------------------------------------------------------ C10
\* C10: if a column's type code matches no mapping rule, no row is fetched
\* and no segment is opened; otherwise the schema has exactly one field per
\* source column, in source column order.
C10_UnmappedFailsFast ==
    /\ (\E i \in DOMAIN description : ~ IsMapped(description[i])) =>
          /\ fetched = 0
          /\ segments = <<>>
          /\ pc # "done"
    /\ ((\A i \in DOMAIN description : IsMapped(description[i])) /\ pc # "schema") =>
          /\ Len(schema) = Len(description)
          /\ \A i \in DOMAIN description : schema[i].name = description[i].name

\* ------------------------------------------------------------------ C11
\* The source column that schema field i was derived from.
SourceColumnOf(i) ==
    CHOOSE j \in DOMAIN description : IsMapped(description[j]) /\ FieldIndex(j) = i

\* A row as the writer gets it is aligned by position with the schema.
IsAligned(row) ==
    /\ Len(row) = Len(schema)
    /\ \A i \in DOMAIN row : row[i].column = SourceColumnOf(i)

\* C11: every row handed to the writer has as many values as the schema has
\* columns, and value i is the row's value of the source column that schema
\* column i was made from, also when source columns share a name.
C11_RowsAlignedByPosition ==
    \A s \in DOMAIN segments :
        \A g \in DOMAIN segments[s].rowgroups :
            \A k \in DOMAIN segments[s].rowgroups[g].rows :
                IsAligned(segments[s].rowgroups[g].rows[k])

\* ------------------------------------------------------------------ C12
\* The width the mapping table gives an integer column of precision pr.
TableWidth(pr) ==
    CASE pr = 3 -> "int8"
      [] pr = 5 -> "int16"
      [] pr = 10 -> "int32"
      [] OTHER -> "int64"

\* C12: an integer column becomes int8 for precision 3, int16 for 5, int32
\* for 10 and int64 for every other precision, whatever else the descriptor
\* or the run holds; a boolean column becomes bool, never an integer type.
C12_IntegerWidths ==
    pc # "schema" =>
        \A i \in DOMAIN description :
            /\ description[i].type_code = "int" =>
                  schema[FieldIndex(i)].type = 
                     [id |-> TableWidth(description[i].precision),
                      precision |-> 0, scale |-> 0]
            /\ description[i].type_code = "bool" =>
                  schema[FieldIndex(i)].type.id = "bool"

\* A derived schema with an int16 column, made from precision 5.
C12_Witness ==
    /\ pc # "schema"
    /\ Len(description) = 1
    /\ description[1].type_code = "int"
    /\ description[1].precision = 5
    /\ schema[1].type.id = "int16"

\* ------------------------------------------------------------------ C13
\* What every step of the script keeps true of the schema and the headers.
C13_Step ==
    \* the derivation comes before any fetch and any segment ...
    /\ pc = "schema" => (batches = <<>> /\ fetched = 0 /\ segments = <<>>)
    \* ... happens once: no step leads back to it ...
    /\ pc' # "schema"
    \* ... and the schema it made stays as it is.
    /\ pc # "schema" => schema' = schema
    /\ \A i \in DOMAIN segments' :
          \* each segment carries the schema of the export,
          /\ segments'[i].schema = schema'
          \* got it when it was opened, before any rowgroup but the one of
          \* the write that opened it,
          /\ i \notin DOMAIN segments =>
                /\ pc \in {"write", "rotate"}
                /\ Len(segments'[i].rowgroups) <= (IF pc = "write" THEN 1 ELSE 0)
          \* and keeps it.
          /\ i \in DOMAIN segments => segments'[i].schema = segments[i].schema

\* C13: the schema is derived once, before the first fetch, and never changes
\* afterwards; every segment opened, the first one and each one made by a
\* rotation, gets that schema as its header when it is opened, before any
\* rowgroup is written to it, and keeps it.
C13_OneSchemaForAllSegments == [][C13_Step]_vars

\* Two segments, both with the two-field schema of the export.
C13_Witness ==
    /\ Len(schema) = 2
    /\ Len(segments) = 2
    /\ segments[1].schema = schema
    /\ segments[2].schema = schema
    /\ Len(segments[2].rowgroups) = 1

\* ------------------------------------------------------------------ C14
OpenSegments == {i \in DOMAIN segments : segments[i].isOpen}

\* C14: at most one segment is open in every state, and from the start of
\* the pipeline (the first fetch) until the export ends (the final close)
\* exactly one segment is open.
C14_ExactlyOneOpen ==
    /\ Cardinality(OpenSegments) <= 1
    /\ pc \in {"fetch", "progress", "transform", "write", "rotate", "close"} =>
          Cardinality(OpenSegments) = 1

\* ------------------------------------------------------------------ C15
\* The rowgroups of the output, segment after segment in the order the
\* segments were opened, and within a segment in file order.
RECURSIVE FlatRowgroups(_)
FlatRowgroups(segs) ==
    IF segs = <<>> THEN <<>>
    ELSE Head(segs).rowgroups \o FlatRowgroups(Tail(segs))

\* The stages follow one another in the order fetch, (progress line,)
\* transform, write, rotation check, and only the rotation check leads to
\* the next fetch; a fetch is the only step that takes rows from the cursor
\* and a write the only one that adds a rowgroup.
C15_StageOrder ==
    /\ pc = "fetch" => pc' \in {"progress", "close", "failed"}
    /\ pc = "progress" => pc' = "transform"
    /\ pc = "transform" => pc' \in {"write", "failed"}
    /\ pc = "write" => pc' \in {"rotate", "failed"}
    /\ pc = "rotate" => pc' \in {"fetch", "failed"}
    /\ pc' = "fetch" => pc \in {"schema", "rotate"}
    /\ batches' # batches => pc = "fetch"
    /\ FlatRowgroups(segments') # FlatRowgroups(segments) => pc = "write"

\* The k-th rowgroup of the output is the k-th batch fetched, and its rows
\* are that batch's rows in the order the cursor returned them.
C15_OutputOrder ==
    LET flat == FlatRowgroups(segments)
    IN  \A k \in DOMAIN flat :
            /\ flat[k].batch = k
            /\ Len(flat[k].rows) = batches[k]
            /\ \A j \in DOMAIN flat[k].rows :
                  \A i \in DOMAIN flat[k].rows[j] :
                     flat[k].rows[j][i].row = SumSeq(SubSeq(batches, 1, k - 1)) + j

\* C15: for each batch the stages run in the order fetch, transform, write,
\* rotation check, and the next fetch starts only after the rotation check;
\* so the rowgroups are in the output, across the segments in the order of
\* their numbers and within a segment in write order, in the order their
\* batches were fetched.
C15_SequentialPipeline == [][C15_StageOrder /\ C15_OutputOrder']_vars

\* Three batches in two segments, one of which holds two rowgroups.
C15_Witness ==
    /\ pc = "done"
    /\ Len(segments) = 2
    /\ Len(FlatRowgroups(segments)) = 3
    /\ \E i \in DOMAIN segments : Len(segments[i].rowgroups) = 2

\* ------------------------------------------------------------------ C16
\* The last fetch returned an empty batch.
Drained == batches # <<>> /\ batches[Len(batches)] = 0

\* The fetch that returns the empty batch leaves the loop and touches
\* nothing; after it nothing is fetched, transformed or written, no segment
\* is created and no file name assigned: only the close and the final
\* message follow.
C16_Step ==
    /\ (~ Drained /\ Drained') =>
          /\ pc' = "close"
          /\ <<rowcount, table, cols, segments, writer, fileNumber,
               outputFileName, progress>>' =
             <<rowcount, table, cols, segments, writer, fileNumber,
               outputFileName, progress>>
    /\ Drained =>
          /\ pc \in {"close", "final"}
          /\ pc' \in {"final", "done"}
          /\ <<batches, fetched, res, rowcount, table, cols, writer,
               fileNumber, outputFileName, progress>>' =
             <<batches, fetched, res, rowcount, table, cols, writer,
               fileNumber, outputFileName, progress>>
          /\ Len(segments') = Len(segments)
          /\ FlatRowgroups(segments') = FlatRowgroups(segments)

\* C16: an empty batch is terminal: for it there is no transform, no write,
\* no segment creation and no rotation check, and no fetch follows it.
C16_EmptyBatchIsTerminal == [][C16_Step]_vars

\* A finished export: two batches were written, the third, empty one was not.
C16_Witness ==
    /\ pc = "done"
    /\ batches = <<1, 1, 0>>
    /\ Len(FlatRowgroups(segments)) = 2

\* ------------------------------------------------------------------ C17
\* The number of non-empty batches fetched so far.
NonEmptyBatches == Cardinality({k \in DOMAIN batches : batches[k] > 0})

\* The segment that holds the rowgroup of batch k.
SegmentOf(k) == (CHOOSE p \in PlacesOf(k) : TRUE)[1]

\* The write of batch k was followed by a rotation: its rowgroup is the last
\* of its segment and a later segment exists.
RotatedAfter(k) ==
    LET p == CHOOSE q \in PlacesOf(k) : TRUE
    IN  p[2] = Len(segments[p[1]].rowgroups) /\ p[1] < Len(segments)

\* The number of lines: one less than the non-empty batches, none without.
C17_LineCount ==
    /\ pc \in {"transform", "write", "rotate"} => Len(progress) = Len(batches) - 1
    /\ pc = "done" =>
          Len(progress) = (IF NonEmptyBatches = 0 THEN 0 ELSE NonEmptyBatches - 1)

\* C17 as claimed: the k-th progress line reports the rows of the first k
\* batches and names the segment that holds the most recent of their
\* rowgroups, the one of batch k; N non-empty batches give N-1 lines.
C17_ProgressNamesSegmentOfRows ==
    /\ \A k \in DOMAIN progress :
          /\ progress[k].rows = SumSeq(SubSeq(batches, 1, k))
          /\ progress[k].file = segments[SegmentOf(k)].name
    /\ C17_LineCount

\* C17, amended: the k-th progress line reports the rows of the first k
\* batches and names the segment that is open when the line is printed: the
\* segment that holds the rowgroup of batch k, or, when the write of batch k
\* was followed by a rotation, the segment that rotation opened, which holds
\* no rowgroup yet; N non-empty batches give N-1 lines.
C17_ProgressNamesOpenSegment ==
    /\ \A k \in DOMAIN progress :
          /\ progress[k].rows = SumSeq(SubSeq(batches, 1, k))
          /\ progress[k].file =
                (IF RotatedAfter(k) THEN segments[SegmentOf(k) + 1].name
                 ELSE segments[SegmentOf(k)].name)
    /\ C17_LineCount

\* Two batches, a rotation after each: the one progress line reports the row
\* in _00001 but names _00002.
C17_Witness ==
    /\ pc = "done"
    /\ batches = <<1, 1, 0>>
    /\ Len(segments) = 3
    /\ Len(progress) = 1
    /\ progress[1].rows = 1
    /\ SegmentOf(1) = 1
    /\ progress[1].file = segments[2].name

\* ------------------------------------------------------------------ C18
\* The bytes of the rowgroups of segment s.
RowgroupBytes(s) == SumSeq([j \in DOMAIN s.rowgroups |-> s.rowgroups[j].bytes])

\* A segment's byte count is its own: what a new file starts with plus the
\* bytes of its own rowgroups.
C18_OwnBytes ==
    \A i \in DOMAIN segments :
        segments[i].tell = segments[1].tell - RowgroupBytes(segments[1])
                              + RowgroupBytes(segments[i])

C18_Step ==
    \* while a segment stays open its byte count does not decrease;
    /\ \A i \in DOMAIN segments :
          (segments[i].isOpen /\ segments'[i].isOpen) =>
              segments'[i].tell >= segments[i].tell
    \* the segment a rotation opens starts without rowgroup bytes, however
    \* many bytes the earlier segments hold;
    /\ (pc = "rotate" /\ Len(segments') > Len(segments)) =>
          /\ RowgroupBytes(segments'[writer']) = 0
          /\ segments'[writer'].tell < segments[writer].tell
    \* and the rotation check decides on the open segment's own bytes.
    /\ (pc = "rotate" /\ pc' = "fetch" /\ blockSize > 0) =>
          (Len(segments') > Len(segments)
              <=> segments[1].tell - RowgroupBytes(segments[1])
                     + RowgroupBytes(segments[writer]) > blockSize * 1024 * 1024)

\* C18: the open segment's byte count never decreases while it stays open,
\* and the count the next rotation decision uses restarts from the new
\* segment's own size when a rotation opens one: the bytes of earlier
\* segments never count toward a later segment's threshold.
C18_BytesPerSegment == [][C18_Step /\ C18_OwnBytes']_vars

\* The second segment has a rowgroup and has passed its rotation check
\* without rotating, although the two segments together hold more than the
\* threshold.
C18_Witness ==
    /\ pc = "fetch"
    /\ blockSize = 1
    /\ Len(segments) = 2
    /\ segments[2].isOpen
    /\ Len(segments[2].rowgroups) = 1
    /\ segments[2].tell <= 1024 * 1024
    /\ RowgroupBytes(segments[1]) + RowgroupBytes(segments[2]) > 1024 * 1024

\* ------------------------------------------------------------------ C19
\* Every segment but the last one opened was closed by a rotation and holds
\* at least one rowgroup; a finished export has a segment without rowgroups
\* only as its last segment, opened by the rotation that the write of the
\* final non-empty batch triggered.
C19_EmptyOnlyLast ==
    /\ \A i \in DOMAIN segments :
          i < Len(segments) => Len(segments[i].rowgroups) >= 1
    /\ pc = "done" =>
          \A i \in DOMAIN segments :
             Len(segments[i].rowgroups) = 0 =>
                /\ i = Len(segments)
                /\ i > 1
                /\ blockSize > 0
                /\ segments[i - 1].tell > blockSize * 1024 * 1024
                /\ segments[i - 1].rowgroups[Len(segments[i - 1].rowgroups)].batch
                      = NonEmptyBatches

\* A rotation (a segment opened while there is one already) happens at the
\* rotation check only, right after the write of the latest batch to the
\* segment it closes.
C19_RotationStep ==
    (segments # <<>> /\ Len(segments') > Len(segments)) =>
        /\ pc = "rotate"
        /\ ~ segments'[writer].isOpen
        /\ Len(segments[writer].rowgroups) >= 1
        /\ segments[writer].rowgroups[Len(segments[writer].rowgroups)].batch
              = Len(batches)

\* C19: a rotation can happen only immediately after a rowgroup write to the
\* segment being closed, so every segment closed by rotation holds at least
\* one rowgroup; the only segment that can hold zero rowgroups is the last
\* one opened, and only when the write of the final non-empty batch
\* triggered a rotation.
C19_RotationFollowsWrite == [][C19_RotationStep /\ C19_EmptyOnlyLast']_vars

\* A finished export whose last segment is empty: the only batch went over
\* the threshold.
C19_Witness ==
    /\ pc = "done"
    /\ batches = <<2, 0>>
    /\ Len(segments) = 2
    /\ Len(segments[1].rowgroups) = 1
    /\ segments[2].rowgroups = <<>>

\* ------------------------------------------------------------------ C20
\* fileNumber is the number after the one in the current file name when the
\* output is split, and 1 next to the plain name when it is not.
C20_CounterAndName ==
    /\ blockSize > 0 => IsNumberedName(outputFileName, fileNumber - 1)
    /\ blockSize = 0 =>
          /\ fileNumber = 1
          /\ outputFileName = <<outputFileRoot, ".parquet">>

\* C20: with blockSize > 0 fileNumber is in every state the number in the
\* current outputFileName plus 1, and it changes only in a step that assigns
\* a new file name; with blockSize = 0 fileNumber stays 1 and outputFileName
\* never changes.
C20_FileNumberIsNext ==
    [][ /\ C20_CounterAndName
        /\ C20_CounterAndName'
        /\ (fileNumber' # fileNumber) <=> (outputFileName' # outputFileName)
        /\ (fileNumber' # fileNumber) => (pc = "rotate" /\ fileNumber' = fileNumber + 1)
        /\ blockSize = 0 => (fileNumber' = 1 /\ outputFileName' = outputFileName)
      ]_vars

\* After two rotations the name in use is _00003 and the counter is 4.
C20_Witness ==
    /\ blockSize > 0
    /\ fileNumber = 4
    /\ outputFileName = <<"root", "_", "0", "0", "0", "0", "3", ".parquet">>

====
